---- MODULE Spec2Model ----
(***************************************************************************)
(* A model of analyze_excel.py: main() loads one table, profiles it,       *)
(* computes descriptive statistics, renders a battery of charts, derives   *)
(* rule-based insights and writes a markdown report.                       *)
(*                                                                         *)
(* Numbers.  pandas works in IEEE doubles; the model works in exact        *)
(* integer arithmetic.  A real value is a record                           *)
(*     [k |-> "num",  num, den]   the rational num/den  (den > 0)          *)
(*     [k |-> "sqrt", num, den]   the non-negative root of num/den         *)
(*     [k |-> "nan",  ...]        NaN                                      *)
(* and every comparison is done by cross-multiplication.  For the small    *)
(* integer cells drawn here the quantities the code compares (quarter      *)
(* fractions, counts, shares) are exact in binary as well.                 *)
(*                                                                         *)
(* Text.  A formatted string is the tuple of its parts, e.g.               *)
(* <<"Distribution of ", col>>; a column name is a tuple <<letter, index>>.*)
(***************************************************************************)
EXTENDS Integers, Sequences, FiniteSets, TLC

(* ------------------------------ bounds -------------------------------- *)
\* rows and largest cell value of the one-numeric-column tables
MaxRows == 5
MaxVal == 2
\* rows of the tables that pair two numeric columns
PairRows == 3
\* largest number of distinct categories of a generated categorical column
MaxDistinct == 30
\* widest tables: numeric and categorical column counts
MaxNumCols == 11
MaxCatCols == 11

(* ------------------------- program constants -------------------------- *)
DistLimit == 10
CatLimit == 10
CatMaxUnique == 30
TopN == 15
ScatterLimit == 5
TimeSeriesLimit == 3
ImbalanceMaxUnique == 10

(* ------------------------------ cells --------------------------------- *)
\* A cell is [na, v, s]: missing (NaN / None / NaT) or present, with its
\* number v (numeric columns) or its label s (categorical and datetime
\* columns; a label is a tuple <<letter, index>>).
NoLabel == <<"", 0>>
NA == [na |-> TRUE, v |-> 0, s |-> NoLabel]
Val(x) == [na |-> FALSE, v |-> x, s |-> NoLabel]
Label(l) == [na |-> FALSE, v |-> 0, s |-> l]

\* Series.dropna() of a numeric column: the present numbers, in row order
dropna(cells) ==
  LET kept == SelectSeq(cells, LAMBDA c : ~c.na)
  IN [i \in 1..Len(kept) |-> kept[i].v]

\* Series.dropna() of a column of labels
dropna_labels(cells) ==
  LET kept == SelectSeq(cells, LAMBDA c : ~c.na)
  IN [i \in 1..Len(kept) |-> kept[i].s]

(* ------------------------------ reals --------------------------------- *)
NaN == [k |-> "nan", num |-> 0, den |-> 1]
F(n, d) == [k |-> "num", num |-> n, den |-> d]
Root(n, d) == [k |-> "sqrt", num |-> n, den |-> d]
IsNaN(x) == x.k = "nan"

Abs(n) == IF n < 0 THEN -n ELSE n

RECURSIVE SumSeq(_)
SumSeq(s) == IF s = <<>> THEN 0 ELSE Head(s) + SumSeq(Tail(s))

RECURSIVE ISqrtIn(_, _, _)
\* the largest k in lo..hi with k*k <= n (lo*lo <= n is assumed)
ISqrtIn(n, lo, hi) ==
  IF lo >= hi THEN lo
  ELSE LET mid == (lo + hi + 1) \div 2
       IN IF mid * mid <= n THEN ISqrtIn(n, mid, hi) ELSE ISqrtIn(n, lo, mid - 1)
ISqrt(n) == ISqrtIn(n, 0, 46340)

RECURSIVE ScaledFloor(_, _, _, _)
\* floor(q + r/den) scaled by the factors in fs, one factor at a time so
\* that no intermediate product leaves the 32-bit range
ScaledFloor(q, r, den, fs) ==
  IF fs = <<>> THEN q
  ELSE LET f == Head(fs)
       IN ScaledFloor(q * f + (r * f) \div den, (r * f) % den, den, Tail(fs))

\* round-half-even of (num/den)*scale for num >= 0, as format() rounds the
\* exact value of a double
RoundHalfEven(num, den, scale) ==
  LET q == (num * scale) \div den
      r == (num * scale) % den
  IN IF 2 * r > den \/ (2 * r = den /\ q % 2 = 1) THEN q + 1 ELSE q

\* f"{x:.2f}" (scale 100) and f"{x:.1f}" (scale 10): the text "nan", or
\* the value in hundredths (tenths)
Fmt(x, scale) ==
  CASE x.k = "nan" -> [text |-> "nan", h |-> 0]
    [] x.k = "num" ->
         [text |-> "num",
          h |-> IF x.num < 0 THEN -RoundHalfEven(-x.num, x.den, scale)
                ELSE RoundHalfEven(x.num, x.den, scale)]
    [] x.k = "sqrt" ->
         \* round(scale*sqrt(q)) = (isqrt(floor(4*scale^2*q)) + 1) div 2
         [text |-> "num",
          h |-> (ISqrt(ScaledFloor(x.num \div x.den, x.num % x.den, x.den,
                                   IF scale = 100 THEN <<10, 10, 10, 10, 4>>
                                   ELSE <<10, 10, 4>>)) + 1) \div 2]
Fmt2f(x) == Fmt(x, 100)
Fmt1f(x) == Fmt(x, 10)

(* --------------------------- order statistics -------------------------- *)
RECURSIVE InsertSorted(_, _)
InsertSorted(x, s) ==
  IF s = <<>> THEN <<x>>
  ELSE IF x <= Head(s) THEN <<x>> \o s
  ELSE <<Head(s)>> \o InsertSorted(x, Tail(s))

RECURSIVE Sorted(_)
Sorted(s) == IF s = <<>> THEN <<>> ELSE InsertSorted(Head(s), Sorted(Tail(s)))

\* Series.quantile(k/4), linear interpolation between order statistics;
\* NaN for a column with no present value
quantile(cells, k) ==
  LET s == Sorted(dropna(cells))
      n == Len(s)
      pos == (n - 1) * k
      lo == pos \div 4
      fr == pos % 4
  IN IF n = 0 THEN NaN
     ELSE IF fr = 0 THEN F(4 * s[lo + 1], 4)
     ELSE F(4 * s[lo + 1] + fr * (s[lo + 2] - s[lo + 1]), 4)

(* ------------------------------ moments -------------------------------- *)
\* With n present values x:  S2 = n*Sum(x^2) - Sum(x)^2   (= n^2 * m2)
\*                           S3 = n^2*Sum(x^3) - 3n*Sum(x)*Sum(x^2) + 2*Sum(x)^3
\*                           T4 = Sum((n*x - Sum(x))^4)
Pow2(s) == [i \in 1..Len(s) |-> s[i] * s[i]]
Pow3(s) == [i \in 1..Len(s) |-> s[i] * s[i] * s[i]]
S2(s) == Len(s) * SumSeq(Pow2(s)) - SumSeq(s) * SumSeq(s)
S3(s) ==
  LET n == Len(s)
      a == SumSeq(s)
  IN n * n * SumSeq(Pow3(s)) - 3 * n * a * SumSeq(Pow2(s)) + 2 * a * a * a
T4(s) ==
  LET n == Len(s)
      a == SumSeq(s)
      d == [i \in 1..n |-> n * s[i] - a]
  IN SumSeq([i \in 1..n |-> d[i] * d[i] * d[i] * d[i]])

\* Series.skew(): the adjusted Fisher-Pearson coefficient G1;
\* NaN below 3 values, 0 for a constant column.
\* G1^2 = n(n-1) S3^2 / ((n-2)^2 S2^3); sign = sign of S3.
skew(cells) ==
  LET s == dropna(cells)
      n == Len(s)
  IN IF n < 3 THEN [k |-> "nan", sign |-> 0, num |-> 0, den |-> 1]
     ELSE IF S2(s) = 0 THEN [k |-> "sqrt", sign |-> 0, num |-> 0, den |-> 1]
     ELSE [k |-> "sqrt",
           sign |-> IF S3(s) > 0 THEN 1 ELSE IF S3(s) < 0 THEN -1 ELSE 0,
           num |-> n * (n - 1) * S3(s) * S3(s),
           den |-> (n - 2) * (n - 2) * S2(s) * S2(s) * S2(s)]

\* Series.kurtosis(): excess kurtosis G2; NaN below 4 values, 0 for a
\* constant column.
kurtosis(cells) ==
  LET s == dropna(cells)
      n == Len(s)
      t2 == n * S2(s)
  IN IF n < 4 THEN NaN
     ELSE IF t2 = 0 THEN F(0, 1)
     ELSE F(n * (n + 1) * (n - 1) * T4(s) - 3 * (n - 1) * (n - 1) * t2 * t2,
            (n - 2) * (n - 3) * t2 * t2)

(* ------------------------------ tables --------------------------------- *)
\* A DataFrame: rows, and the columns in declaration order.  A column is
\* [name, kind, cells, strname]: kind is the dtype class select_dtypes
\* tests, strname tells whether the header is a str (a numeric header cell
\* is read as an int).
Col(name, kind, cells) ==
  [name |-> name, kind |-> kind, cells |-> cells, strname |-> TRUE]

SelectCols(df, kinds) == SelectSeq(df.columns, LAMBDA c : c.kind \in kinds)
numeric_cols(df) == SelectCols(df, {"numeric"})
categorical_cols(df) == SelectCols(df, {"categorical"})
datetime_cols(df) == SelectCols(df, {"datetime"})

\* s[:n]
FirstN(s, n) == SubSeq(s, 1, IF Len(s) < n THEN Len(s) ELSE n)

RECURSIVE Concat(_)
\* the concatenation of a sequence of sequences
Concat(ss) == IF ss = <<>> THEN <<>> ELSE Head(ss) \o Concat(Tail(ss))

CountNA(cells) == Len(SelectSeq(cells, LAMBDA c : c.na))

(* --------------------------- basic_summary ----------------------------- *)
basic_summary(df) ==
  [rows |-> df.rows,
   columns |-> Len(df.columns),
   column_names |-> [i \in 1..Len(df.columns) |-> df.columns[i].name],
   data_types |-> [i \in 1..Len(df.columns) |-> df.columns[i].kind],
   missing_values |-> [i \in 1..Len(df.columns) |-> CountNA(df.columns[i].cells)],
   numeric_columns |-> [i \in 1..Len(numeric_cols(df)) |-> numeric_cols(df)[i].name],
   categorical_columns |->
     [i \in 1..Len(categorical_cols(df)) |-> categorical_cols(df)[i].name],
   datetime_columns |->
     [i \in 1..Len(datetime_cols(df)) |-> datetime_cols(df)[i].name]]

(* ---------------------- generate_descriptive_stats --------------------- *)
\* One row of describe().transpose() with range, median, skew, kurtosis
\* added.  std is the sample deviation, sqrt(S2 / (n(n-1))), NaN below two
\* values; every statistic of a column without values is NaN.
describe(col) ==
  LET s == Sorted(dropna(col.cells))
      n == Len(s)
      lo == IF n = 0 THEN NaN ELSE F(s[1], 1)
      hi == IF n = 0 THEN NaN ELSE F(s[n], 1)
  IN [col |-> col.name,
      strname |-> col.strname,
      count |-> F(n, 1),
      mean |-> IF n = 0 THEN NaN ELSE F(SumSeq(s), n),
      std |-> IF n < 2 THEN NaN ELSE Root(S2(s), n * (n - 1)),
      min |-> lo,
      q25 |-> quantile(col.cells, 1),
      q50 |-> quantile(col.cells, 2),
      q75 |-> quantile(col.cells, 3),
      max |-> hi,
      range |-> IF n = 0 THEN NaN ELSE F(s[n] - s[1], 1),
      median |-> quantile(col.cells, 2),
      skew |-> skew(col.cells),
      kurtosis |-> kurtosis(col.cells)]

NoStats == [none |-> TRUE, index |-> <<>>]

generate_descriptive_stats(df) ==
  LET nc == numeric_cols(df)
  IN IF Len(nc) = 0 THEN NoStats
     ELSE [none |-> FALSE, index |-> [i \in 1..Len(nc) |-> describe(nc[i])]]

(* ------------------------------ corr ----------------------------------- *)
\* DataFrame.corr() for one pair: Pearson's r over the rows where both
\* cells are present, r = sxy / sqrt(sxx * syy); NaN when either column is
\* constant there (or no row is left).
corr(c1, c2) ==
  LET both == SelectSeq([i \in 1..Len(c1.cells) |-> i],
                        LAMBDA i : ~c1.cells[i].na /\ ~c2.cells[i].na)
      n == Len(both)
      x == [i \in 1..n |-> c1.cells[both[i]].v]
      y == [i \in 1..n |-> c2.cells[both[i]].v]
      sxy == n * SumSeq([i \in 1..n |-> x[i] * y[i]]) - SumSeq(x) * SumSeq(y)
  IN IF n = 0 \/ S2(x) = 0 \/ S2(y) = 0
     THEN [k |-> "nan", sxy |-> 0, sxx |-> 1, syy |-> 1]
     ELSE [k |-> "num", sxy |-> sxy, sxx |-> S2(x), syy |-> S2(y)]

\* .abs()
corr_abs(r) == [r EXCEPT !.sxy = Abs(r.sxy)]

\* r > tn/td for a threshold tn/td >= 0; False for NaN
CorrGt(r, tn, td) ==
  /\ r.k = "num"
  /\ r.sxy > 0
  /\ td * td * r.sxy * r.sxy > tn * tn * r.sxx * r.syy

\* f"{r:.2f}" in hundredths
FmtCorr(r) ==
  LET m == Fmt2f(Root(r.sxy * r.sxy, r.sxx * r.syy)).h
  IN IF r.sxy < 0 THEN -m ELSE m

\* the index pairs (i, j), i < j, of the strict upper triangle, row by row
UpperPairs(n) ==
  Concat([i \in 1..n |-> [d \in 1..(n - i) |-> <<i, i + d>>]])

\* np.where(upper > tn/td) on the absolute correlation matrix of nc
StrongPairs(nc, tn, td) ==
  SelectSeq(UpperPairs(Len(nc)),
            LAMBDA p : CorrGt(corr_abs(corr(nc[p[1]], nc[p[2]])), tn, td))

(* --------------------------- value_counts ------------------------------ *)
\* the distinct values of s in order of first appearance
Unique(s) ==
  LET first == SelectSeq([i \in 1..Len(s) |-> i],
                         LAMBDA i : \A j \in 1..(i - 1) : s[j] # s[i])
  IN [k \in 1..Len(first) |-> s[first[k]]]

RECURSIVE InsertByCount(_, _)
\* stable insertion into a sequence ordered by descending count
InsertByCount(e, s) ==
  IF s = <<>> THEN <<e>>
  ELSE IF e.count > Head(s).count THEN <<e>> \o s
  ELSE <<Head(s)>> \o InsertByCount(e, Tail(s))

RECURSIVE SortByCount(_, _)
SortByCount(s, acc) ==
  IF s = <<>> THEN acc ELSE SortByCount(Tail(s), InsertByCount(Head(s), acc))

\* Series.value_counts(): the present values with their counts, most
\* frequent first, equal counts in order of first appearance
value_counts(cells) ==
  LET s == dropna_labels(cells)
      u == Unique(s)
      counted == [i \in 1..Len(u) |->
                    [value |-> u[i],
                     count |-> Len(SelectSeq(s, LAMBDA x : x = u[i]))]]
  IN SortByCount(counted, <<>>)

nunique(cells) == Len(Unique(dropna_labels(cells)))

(* --------------------- identify_trends_and_patterns -------------------- *)
\* df[(df[col] < lower_bound) | (df[col] > upper_bound)][col] : the rows
\* outside the fences.  With Q1 = a/4 and Q3 = b/4 the fences are
\* (5a - 3b)/8 and (5b - 3a)/8; every comparison with NaN is False.
OutlierRows(col) ==
  LET q1 == quantile(col.cells, 1)
      q3 == quantile(col.cells, 3)
      a == q1.num
      b == q3.num
  IN IF IsNaN(q1) THEN <<>>
     ELSE SelectSeq([i \in 1..Len(col.cells) |-> i],
                    LAMBDA i : /\ ~col.cells[i].na
                               /\ \/ 8 * col.cells[i].v < 5 * a - 3 * b
                                  \/ 8 * col.cells[i].v > 5 * b - 3 * a)

\* (a variant that divides by the column's present cells)
OutlierPctOfPresent(df, col) ==
  F(100 * Len(OutlierRows(col)), Len(dropna(col.cells)))

\* pct_outliers = len(outliers) / len(df) * 100
OutlierPct(df, col) == F(100 * Len(OutlierRows(col)), df.rows)

OutlierInsight(df, col) ==
  IF Len(OutlierRows(col)) > 0
  THEN <<[kind |-> "outlier", col |-> col.name,
          count |-> Len(OutlierRows(col)),
          pct |-> Fmt2f(OutlierPct(df, col)).h]>>
  ELSE <<>>

OutlierInsights(df) ==
  LET nc == numeric_cols(df)
  IN Concat([i \in 1..Len(nc) |-> OutlierInsight(df, nc[i])])

\* the value the correlation insight prints: correlation.iloc[i, j] of the
\* matrix that went through .abs()
ReportedCorr(c1, c2) == corr_abs(corr(c1, c2))

CorrelationInsights(df) ==
  LET nc == numeric_cols(df)
      sp == IF Len(nc) >= 2 THEN StrongPairs(nc, 7, 10) ELSE <<>>
  IN [i \in 1..Len(sp) |->
        [kind |-> "correlation",
         col1 |-> nc[sp[i][1]].name,
         col2 |-> nc[sp[i][2]].name,
         r |-> FmtCorr(ReportedCorr(nc[sp[i][1]], nc[sp[i][2]]))]]

\* abs(skew_val) > 1 ; False for NaN
HighlySkewed(col) ==
  LET g == skew(col.cells)
  IN g.k = "sqrt" /\ g.num > g.den

SkewInsight(col) ==
  LET g == skew(col.cells)
  IN IF HighlySkewed(col)
     THEN <<[kind |-> "skew", col |-> col.name,
             direction |-> IF g.sign > 0 THEN "right" ELSE "left",
             skew |-> g.sign * Fmt2f(g).h]>>
     ELSE <<>>

SkewInsights(df) ==
  LET nc == numeric_cols(df)
  IN Concat([i \in 1..Len(nc) |-> SkewInsight(nc[i])])

\* (a variant that also accepts a share of exactly 80%)
ImbalancedAtLeast(col) ==
  10 * value_counts(col.cells)[1].count >= 8 * Len(dropna_labels(col.cells))

\* value_counts(normalize=True).iloc[0] > 0.8, the share being taken of
\* the present cells
Imbalanced(col) ==
  LET vc == value_counts(col.cells)
      total == Len(dropna_labels(col.cells))
  IN 10 * vc[1].count > 8 * total

\* .iloc[0] of an empty value_counts raises IndexError
ImbalanceRaises(col) ==
  nunique(col.cells) < ImbalanceMaxUnique /\ value_counts(col.cells) = <<>>

ImbalanceInsight(col) ==
  LET vc == value_counts(col.cells)
      total == Len(dropna_labels(col.cells))
  IN IF nunique(col.cells) < ImbalanceMaxUnique /\ Imbalanced(col)
     THEN <<[kind |-> "imbalance", col |-> col.name,
             category |-> vc[1].value,
             pct |-> Fmt1f(F(100 * vc[1].count, total)).h]>>
     ELSE <<>>

ImbalanceInsights(df) ==
  LET cc == categorical_cols(df)
  IN Concat([i \in 1..Len(cc) |-> ImbalanceInsight(cc[i])])

\* The function's outcome: the insights it returns, or the exception that
\* leaves it (the first categorical column whose value_counts is empty).
identify_trends_and_patterns(df) ==
  LET cc == categorical_cols(df)
  IN IF \E i \in 1..Len(cc) : ImbalanceRaises(cc[i])
     THEN [raised |-> TRUE, insights |-> <<>>]
     ELSE [raised |-> FALSE,
           insights |-> OutlierInsights(df) \o CorrelationInsights(df)
                        \o SkewInsights(df) \o ImbalanceInsights(df)]

(* ------------------------- create_visualizations ----------------------- *)
\* One entry per figure the function draws, in the order it draws them:
\* kind, the title set on the figure (plt.title), the title appended to
\* visualization_paths, the file name, and for a count plot the bars shown.
Chart(kind, figtitle, title, path, shown) ==
  [kind |-> kind, figtitle |-> figtitle, title |-> title, path |-> path,
   shown |-> shown]

\* (a variant without the slice)
DistributionColsUnlimited(df) == numeric_cols(df)

\* numeric_cols[:10]
DistributionCols(df) == FirstN(numeric_cols(df), DistLimit)

DistributionCharts(df) ==
  LET nc == DistributionCols(df)
  IN [i \in 1..Len(nc) |->
        Chart("distribution", <<"Distribution of ", nc[i].name>>,
              <<"Distribution of ", nc[i].name>>,
              <<"distribution_", nc[i].name, ".png">>, <<>>)]

\* the title appended to visualization_paths for a count plot
CategoryGalleryTitle(col, vc) == <<"Categories in ", col.name>>

CategoryChart(col) ==
  LET vc == value_counts(col.cells)
  IN IF nunique(col.cells) < CatMaxUnique
     THEN IF Len(vc) > TopN
          THEN <<Chart("categorical", <<"Top 15 Categories in ", col.name>>,
                       CategoryGalleryTitle(col, vc),
                       <<"categorical_", col.name, ".png">>, FirstN(vc, TopN))>>
          ELSE <<Chart("categorical", <<"Categories in ", col.name>>,
                       CategoryGalleryTitle(col, vc),
                       <<"categorical_", col.name, ".png">>, vc)>>
     ELSE <<>>

CategoryCharts(df) ==
  LET cc == FirstN(categorical_cols(df), CatLimit)
  IN Concat([i \in 1..Len(cc) |-> CategoryChart(cc[i])])

HeatmapCharts(df) ==
  IF Len(numeric_cols(df)) >= 2
  THEN <<Chart("heatmap", <<"Correlation Between Numeric Variables">>,
               <<"Correlation Heatmap">>, <<"correlation_heatmap.png">>, <<>>)>>
  ELSE <<>>

ScatterPairs(df) ==
  IF Len(numeric_cols(df)) >= 2
  THEN FirstN(StrongPairs(numeric_cols(df), 1, 2), ScatterLimit)
  ELSE <<>>

ScatterCharts(df) ==
  LET nc == numeric_cols(df)
      sp == ScatterPairs(df)
  IN [i \in 1..Len(sp) |->
        Chart("scatter",
              <<"Relationship between ", nc[sp[i][1]].name, " and ", nc[sp[i][2]].name>>,
              <<"Scatter plot: ", nc[sp[i][1]].name, " vs ", nc[sp[i][2]].name>>,
              <<"scatter_", nc[sp[i][1]].name, "_", nc[sp[i][2]].name, ".png">>,
              <<>>)]

TimeSeriesCharts(df) ==
  LET nc == FirstN(numeric_cols(df), TimeSeriesLimit)
  IN IF Len(datetime_cols(df)) > 0 /\ Len(numeric_cols(df)) > 0
     THEN [i \in 1..Len(nc) |->
             Chart("timeseries", <<nc[i].name, " over Time">>,
                   <<"Time series: ", nc[i].name>>,
                   <<"timeseries_", nc[i].name, ".png">>, <<>>)]
     ELSE <<>>

\* the figures of one call, in drawing order
ChartPlan(df) ==
  DistributionCharts(df) \o CategoryCharts(df) \o HeatmapCharts(df)
    \o ScatterCharts(df) \o TimeSeriesCharts(df)

(* ------------------------ generate_markdown_report --------------------- *)
\* missing_pct = (missing / rows) * 100 if rows > 0 else 0
MissingPct(missing, rows) == IF rows > 0 THEN F(100 * missing, rows) ELSE F(0, 1)

ColumnRows(sm) ==
  [i \in 1..sm.columns |->
     [col |-> sm.column_names[i], dtype |-> sm.data_types[i],
      missing |-> sm.missing_values[i],
      pct |-> Fmt2f(MissingPct(sm.missing_values[i], sm.rows))]]

\* the rows of the statistics table: the columns of stats, in their order,
\* that the report keeps, every value through f"{v:.2f}"
StatsRows(st) ==
  LET cell(f(_)) == [i \in 1..Len(st.index) |-> Fmt2f(f(st.index[i]))]
  IN << [metric |-> "count", values |-> cell(LAMBDA r : r.count)],
        [metric |-> "mean", values |-> cell(LAMBDA r : r.mean)],
        [metric |-> "std", values |-> cell(LAMBDA r : r.std)],
        [metric |-> "min", values |-> cell(LAMBDA r : r.min)],
        [metric |-> "max", values |-> cell(LAMBDA r : r.max)],
        [metric |-> "range", values |-> cell(LAMBDA r : r.range)],
        [metric |-> "median", values |-> cell(LAMBDA r : r.median)] >>

\* " | ".join(stats.index) raises TypeError when a numeric column's header
\* is not a str; the section heading is already written by then
StatsJoinRaises(st) == \E i \in 1..Len(st.index) : ~st.index[i].strname

Section(name, body, raises) == [name |-> name, body |-> body, raises |-> raises]

\* the parts of the document in the order they are written; a part whose
\* condition fails is left out
ReportSections(sm, st, vis, ins) ==
  << Section("overview", <<sm.rows, sm.columns>>, FALSE),
     Section("columns", ColumnRows(sm), FALSE) >>
  \o (IF ~st.none
      THEN <<Section("statistics",
                     IF StatsJoinRaises(st) THEN <<>> ELSE StatsRows(st),
                     StatsJoinRaises(st))>>
      ELSE <<>>)
  \o (IF ins # <<>> THEN <<Section("insights", ins, FALSE)>> ELSE <<>>)
  \o (IF vis # <<>> THEN <<Section("visualizations", vis, FALSE)>> ELSE <<>>)

(* ------------------------------- state --------------------------------- *)
VARIABLES
  pc,                  \* where main() is
  df,                  \* the table in User.xls, as read_excel returns it
  summary,             \* main's summary
  stats,               \* main's stats
  todo,                \* the figures create_visualizations has yet to draw
  visualization_paths, \* the list create_visualizations is building
  figures,             \* the image files on disk
  visualizations,      \* main's visualizations
  insights,            \* main's insights
  report,              \* data_analysis_report.md on disk
  console,             \* what was printed
  exitStatus           \* <<>> while main runs, then <<the completion status>>

vars == <<pc, df, summary, stats, todo, visualization_paths, figures, visualizations,
          insights, report, console, exitStatus>>

None == [none |-> TRUE]
NoReport == [exists |-> FALSE, sections |-> <<>>, complete |-> FALSE]
ReportPath == "report_output/data_analysis_report.md"

(* ------------------------------ inputs --------------------------------- *)
\* read_excel types a column without any value as float64 when the sheet
\* has rows, and every column of a sheet with headers only as object: a
\* categorical column is without values only in a table without rows.
NumCells == {NA} \cup {Val(v) : v \in 0..MaxVal}
NumVals == {Val(v) : v \in 0..MaxVal}

Table(cols) ==
  [rows |-> IF cols = <<>> THEN 0 ELSE Len(cols[1].cells), columns |-> cols]

\* a sheet with a header row only
HeaderOnlyTables ==
  {Table([i \in 1..k |-> Col(<<"h", i>>, "categorical", <<>>)]) : k \in 0..2}

\* one numeric column: every multiset of cells, in ascending order with
\* the missing cells last
CellKey(c) == IF c.na THEN MaxVal + 1 ELSE c.v
OneNumericTables ==
  UNION {{Table(<<Col(<<"a", 1>>, "numeric", cells)>>) :
            cells \in {f \in [1..n -> NumCells] :
                         \A i \in 1..(n - 1) : CellKey(f[i]) <= CellKey(f[i + 1])}} :
         n \in 1..MaxRows}

\* one numeric column under a numeric header
IntNamedTables ==
  {Table(<<[Col(<<"a", 1>>, "numeric", <<Val(0), Val(v)>>) EXCEPT !.strname = FALSE]>>) :
     v \in 0..MaxVal}

\* two numeric columns in any row order, and two numeric columns beside a
\* third column
Ascending(n) == [i \in 1..n |-> Val(i - 1)]
Descending(n) == [i \in 1..n |-> Val(n - i)]
Spike(n) == [i \in 1..n |-> Val(IF i = n THEN MaxVal ELSE 0)]
AllSame(n) == [i \in 1..n |-> Label(<<"x", 1>>)]
OneOther(n) == [i \in 1..n |-> Label(IF i = 1 THEN <<"x", 2>> ELSE <<"x", 1>>)]
Dates(n) == [i \in 1..n |-> Label(<<"t", i>>)]
ThirdColumns(n) ==
  { <<Col(<<"c", 1>>, "categorical", AllSame(n))>>,
    <<Col(<<"c", 1>>, "categorical", OneOther(n))>>,
    <<Col(<<"d", 1>>, "datetime", Dates(n))>> }

PairedTables ==
  {Table(<<Col(<<"a", 1>>, "numeric", a), Col(<<"b", 1>>, "numeric", <<b1>> \o b)>>) :
     a \in {Ascending(PairRows + 1), Spike(PairRows + 1)},
     b1 \in NumCells,
     b \in [1..PairRows -> NumVals]}
MixedTables ==
  {Table(<<Col(<<"a", 1>>, "numeric", a), Col(<<"b", 1>>, "numeric", b)>> \o c) :
     a \in {Ascending(PairRows + 1), Spike(PairRows + 1)},
     b \in {Descending(PairRows + 1), Spike(PairRows + 1)},
     c \in ThirdColumns(PairRows + 1)}

\* one categorical column with d distinct values: m missing cells, then
\* d - 1 values once each, then one value t times
Profile(d, t, m) ==
  [i \in 1..(m + d - 1 + t) |->
     IF i <= m THEN NA
     ELSE IF i <= m + d - 1 THEN Label(<<"c", i - m + 1>>)
     ELSE Label(<<"c", 1>>)]

\* top counts on both sides of an 80% share
TopCounts(d) ==
  IF d = 1 \/ d > ImbalanceMaxUnique THEN {1, 2}
  ELSE {1, 4 * (d - 1), 4 * (d - 1) + 1}

\* a second categorical column: one value, but for the last row
Second(n) == [i \in 1..n |-> Label(IF i = n THEN <<"z", 2>> ELSE <<"z", 1>>)]

CategoricalOf(d, t, m) ==
  {Table(<<Col(<<"k", 1>>, "categorical", Profile(d, t, m))>>),
   Table(<<Col(<<"k", 1>>, "categorical", Profile(d, t, m)),
           Col(<<"k", 2>>, "categorical", Second(m + d - 1 + t))>>)}
CategoricalTables ==
  UNION {UNION {CategoricalOf(d, t, m) : t \in TopCounts(d), m \in 0..1} :
           d \in 1..MaxDistinct}

\* wide tables: nn numeric, nc categorical and nd datetime columns
WideNumeric(i) ==
  CASE i % 3 = 1 -> <<Val(0), Val(1), Val(2)>>
    [] i % 3 = 2 -> <<Val(2), Val(1), Val(0)>>
    [] OTHER -> <<Val(1), Val(0), Val(1)>>
WideTables ==
  {Table([i \in 1..nn |-> Col(<<"n", i>>, "numeric", WideNumeric(i))]
         \o [i \in 1..nc |-> Col(<<"k", i>>, "categorical", OneOther(3))]
         \o [i \in 1..nd |-> Col(<<"d", i>>, "datetime", Dates(3))]) :
     nn \in 0..MaxNumCols, nc \in 0..MaxCatCols, nd \in 0..1}

Tables ==
  HeaderOnlyTables \cup OneNumericTables \cup IntNamedTables \cup PairedTables
    \cup MixedTables \cup CategoricalTables \cup WideTables

(* ------------------------------- main ---------------------------------- *)
Init ==
  /\ df \in Tables
  /\ pc = "load"
  /\ summary = None
  /\ stats = None
  /\ todo = <<>>
  /\ visualization_paths = <<>>
  /\ figures = <<>>
  /\ visualizations = <<>>
  /\ insights = <<>>
  /\ report = NoReport
  /\ console = <<>>
  /\ exitStatus = <<>>

\* except Exception as e: print(f"Error during analysis: {str(e)}"), after
\* the stage's own progress message; main then returns and the interpreter
\* ends with the status of a normal return
CaughtStatus == 0
Caught(progress, e) ==
  /\ pc' = "caught"
  /\ console' = console \o progress \o << <<"Error during analysis: ", e>> >>
  /\ exitStatus' = <<CaughtStatus>>

\* df = load_data(input_file)
LoadData ==
  /\ pc = "load"
  /\ \/ /\ pc' = "summary"
        /\ console' = Append(console, <<"Loading data from ", "User.xls", "...">>)
        /\ exitStatus' = exitStatus
     \/ Caught(<< <<"Loading data from ", "User.xls", "...">> >>, "read_excel")
  /\ UNCHANGED <<df, summary, stats, todo, visualization_paths, figures,
                 visualizations, insights, report>>

\* summary = basic_summary(df)
BasicSummary ==
  /\ pc = "summary"
  /\ pc' = "stats"
  /\ summary' = basic_summary(df)
  /\ console' = Append(console, <<"Generating data summary...">>)
  /\ UNCHANGED <<df, stats, todo, visualization_paths, figures, visualizations,
                 insights, report, exitStatus>>

\* stats = generate_descriptive_stats(df), then the entry into
\* create_visualizations
DescriptiveStats ==
  /\ pc = "stats"
  /\ pc' = "charts"
  /\ stats' = generate_descriptive_stats(df)
  /\ todo' = ChartPlan(df)
  /\ console' = console \o << <<"Calculating statistics...">>,
                             <<"Creating visualizations...">> >>
  /\ UNCHANGED <<df, summary, visualization_paths, figures, visualizations,
                 insights, report, exitStatus>>

\* one figure of create_visualizations: drawn, saved and appended to the
\* list, or the plotting call raises and the exception leaves the function
\* (nothing catches it before main's handler), its local list with it
RenderChart ==
  /\ pc = "charts"
  /\ todo # <<>>
  /\ LET c == Head(todo)
     IN \/ /\ figures' = Append(figures,
                                [path |-> c.path, title |-> c.figtitle, shown |-> c.shown])
           /\ visualization_paths' =
                Append(visualization_paths, [title |-> c.title, path |-> c.path])
           /\ todo' = Tail(todo)
           /\ UNCHANGED <<pc, console, exitStatus>>
        \/ /\ Caught(<<>>, "savefig")
           /\ visualization_paths' = <<>>
           /\ todo' = <<>>
           /\ figures' = figures
  /\ UNCHANGED <<df, summary, stats, visualizations, insights, report>>

\* return visualization_paths
ReturnVisualizations ==
  /\ pc = "charts"
  /\ todo = <<>>
  /\ pc' = "insights"
  /\ visualizations' = visualization_paths
  /\ visualization_paths' = <<>>
  /\ UNCHANGED <<df, summary, stats, todo, figures, insights, report, console,
                 exitStatus>>

\* insights = identify_trends_and_patterns(df)
IdentifyTrends ==
  /\ pc = "insights"
  /\ LET r == identify_trends_and_patterns(df)
     IN IF r.raised
        THEN /\ Caught(<< <<"Identifying trends and patterns...">> >>,
                       "single positional indexer is out-of-bounds")
             /\ insights' = insights
        ELSE /\ pc' = "report"
             /\ insights' = r.insights
             /\ console' = Append(console, <<"Identifying trends and patterns...">>)
             /\ exitStatus' = exitStatus
  /\ UNCHANGED <<df, summary, stats, todo, visualization_paths, figures,
                 visualizations, report>>

\* with open(file_path, 'w') as f: the file is created (or emptied)
OpenReport ==
  /\ pc = "report"
  /\ \/ /\ pc' = "write"
        /\ report' = [exists |-> TRUE, sections |-> <<>>, complete |-> FALSE]
        /\ console' = Append(console, <<"Generating markdown report...">>)
        /\ exitStatus' = exitStatus
     \/ /\ Caught(<< <<"Generating markdown report...">> >>, "open")
        /\ report' = report
  /\ UNCHANGED <<df, summary, stats, todo, visualization_paths, figures,
                 visualizations, insights>>

\* the f.write calls of one part of the document: all done, or one of them
\* raises (the part's own TypeError, or the file system) and the with
\* block closes the file as it stands
WriteSection ==
  /\ pc = "write"
  /\ Len(report.sections) < Len(ReportSections(summary, stats, visualizations, insights))
  /\ LET sec == ReportSections(summary, stats, visualizations, insights)
                  [Len(report.sections) + 1]
     IN \/ /\ ~sec.raises
           /\ report' = [report EXCEPT !.sections = Append(@, sec)]
           /\ UNCHANGED <<pc, console, exitStatus>>
        \/ /\ sec.raises
           /\ Caught(<<>>, "sequence item 0: expected str instance, int found")
           /\ report' = [report EXCEPT !.sections = Append(@, sec)]
        \/ /\ Caught(<<>>, "write")
           /\ report' = report
  /\ UNCHANGED <<df, summary, stats, todo, visualization_paths, figures,
                 visualizations, insights>>

\* the with block ends, generate_markdown_report returns, main prints the
\* path and returns
FinishReport ==
  /\ pc = "write"
  /\ Len(report.sections) = Len(ReportSections(summary, stats, visualizations, insights))
  /\ pc' = "done"
  /\ report' = [report EXCEPT !.complete = TRUE]
  /\ console' = Append(console, <<"Analysis complete! Report saved to ", ReportPath>>)
  /\ exitStatus' = <<0>>
  /\ UNCHANGED <<df, summary, stats, todo, visualization_paths, figures,
                 visualizations, insights>>

Next ==
  \/ LoadData
  \/ BasicSummary
  \/ DescriptiveStats
  \/ RenderChart
  \/ ReturnVisualizations
  \/ IdentifyTrends
  \/ OpenReport
  \/ WriteSection
  \/ FinishReport

Spec == Init /\ [][Next]_vars

(* ------------------------------ claims --------------------------------- *)
Said(msg) == \E i \in 1..Len(console) : console[i] = msg
ErrorSaid(e) == Said(<<"Error during analysis: ", e>>)
ErrorCount ==
  Len(SelectSeq(console, LAMBDA m : m[1] = "Error during analysis: "))

\* a plotting call raised during create_visualizations
ChartFailed == ErrorSaid("savefig")
\* identify_trends_and_patterns was called / raised
IdentifyRan == Said(<<"Identifying trends and patterns...">>)
IdentifyRaised == ErrorSaid("single positional indexer is out-of-bounds")
\* main has ended
Ended == exitStatus # <<>>

ColumnNamed(name) == CHOOSE c \in {df.columns[i] : i \in 1..Len(df.columns)} : c.name = name
WithPrefix(gallery, prefix) == SelectSeq(gallery, LAMBDA g : g.path[1] = prefix)
OfKind(kind) == SelectSeq(insights, LAMBDA x : x.kind = kind)

\* C1: when the rendering of one chart fails, the run still ends with a
\* complete report whose gallery holds every chart that was rendered.
C1_ChartFailureNonFatal ==
  (ChartFailed /\ Ended) =>
     /\ report.complete
     /\ \A i \in 1..Len(figures) :
          \E j \in 1..Len(visualizations) : visualizations[j].path = figures[i].path

\* C2: a run that ends in the top-level handler leaves no report document
\* on disk.
C2_NoPartialReport == (pc = "caught") => ~report.exists

\* C3: no gallery, finished or under construction, holds more than 10
\* distribution charts, 10 category-count charts, 5 scatter charts, 3
\* time-series charts or 1 correlation heatmap.
GalleryWithinCaps(g) ==
  /\ Len(WithPrefix(g, "distribution_")) <= 10
  /\ Len(WithPrefix(g, "categorical_")) <= 10
  /\ Len(WithPrefix(g, "scatter_")) <= 5
  /\ Len(WithPrefix(g, "timeseries_")) <= 3
  /\ Len(WithPrefix(g, "correlation_heatmap.png")) <= 1
C3_ChartCaps == GalleryWithinCaps(visualization_paths) /\ GalleryWithinCaps(visualizations)

\* a table wider than every cap, whose gallery was returned filled to each cap
C3_Witness ==
  /\ pc = "insights"
  /\ Len(numeric_cols(df)) > 10
  /\ Len(categorical_cols(df)) > 10
  /\ Len(datetime_cols(df)) > 0
  /\ Len(StrongPairs(numeric_cols(df), 1, 2)) > 5
  /\ Len(WithPrefix(visualizations, "distribution_")) = 10
  /\ Len(WithPrefix(visualizations, "categorical_")) = 10
  /\ Len(WithPrefix(visualizations, "scatter_")) = 5
  /\ Len(WithPrefix(visualizations, "timeseries_")) = 3
  /\ Len(WithPrefix(visualizations, "correlation_heatmap.png")) = 1

\* C4: every pair of numeric columns (i < j) with |r| > 0.7 has a
\* correlation insight that reports r with its sign, rounded to 2 decimals.
C4_SignedCorrelation ==
  (IdentifyRan /\ ~IdentifyRaised) =>
     LET nc == numeric_cols(df)
     IN \A i \in 1..Len(nc), j \in 1..Len(nc) :
          (i < j /\ CorrGt(corr_abs(corr(nc[i], nc[j])), 7, 10)) =>
             \E x \in {insights[n] : n \in 1..Len(insights)} :
                /\ x.kind = "correlation"
                /\ x.col1 = nc[i].name
                /\ x.col2 = nc[j].name
                /\ x.r = FmtCorr(corr(nc[i], nc[j]))

\* C5: the gallery entry of a count plot of a column with more than 15
\* distinct values carries a title that marks the truncation, and the plot
\* shows the 15 most frequent values; with 15 or fewer distinct values
\* nothing is cut and the title carries no mark.
C5_TruncationMarked ==
  \A i \in 1..Len(visualizations) :
     visualizations[i].path[1] = "categorical_" =>
        LET col == ColumnNamed(visualizations[i].path[2])
            vc == value_counts(col.cells)
        IN IF Len(vc) > 15
           THEN /\ figures[i].shown = FirstN(vc, 15)
                /\ visualizations[i].title = <<"Top 15 Categories in ", col.name>>
           ELSE /\ figures[i].shown = vc
                /\ visualizations[i].title = <<"Categories in ", col.name>>

\* C6: std, skewness and kurtosis of a numeric column with fewer than 2
\* present values are a not-computable marker that is neither a number nor
\* NaN, and the report does not print them as a number.
NotComputable(x) == x.k \notin {"nan", "num", "sqrt"}
C6_NotComputableMarker ==
  (pc \notin {"load", "summary", "stats"} /\ ~stats.none) =>
     \A i \in 1..Len(stats.index) :
        (stats.index[i].count.num < 2) =>
           /\ NotComputable(stats.index[i].std)
           /\ NotComputable(stats.index[i].skew)
           /\ NotComputable(stats.index[i].kurtosis)
           /\ \A n \in 1..Len(report.sections) :
                (report.sections[n].name = "statistics" /\ ~report.sections[n].raises) =>
                   report.sections[n].body[3].values[i].text # "num"

\* C7: a categorical column yields exactly one imbalance insight, naming
\* its most frequent category, when it has fewer than 10 distinct values
\* and one category holds strictly more than 80% of its present cells;
\* otherwise it yields none.
LabelsOf(col) == {col.cells[i].s : i \in {n \in 1..Len(col.cells) : ~col.cells[n].na}}
Occurrences(col, l) ==
  Cardinality({i \in 1..Len(col.cells) : ~col.cells[i].na /\ col.cells[i].s = l})
Present(col) == Cardinality({i \in 1..Len(col.cells) : ~col.cells[i].na})
Dominant(col) == {l \in LabelsOf(col) : 5 * Occurrences(col, l) > 4 * Present(col)}
C7_ImbalanceRule ==
  IdentifyRan =>
     \A c \in {df.columns[i] : i \in 1..Len(df.columns)} :
        c.kind = "categorical" =>
           LET found == SelectSeq(OfKind("imbalance"), LAMBDA x : x.col = c.name)
           IN IF Cardinality(LabelsOf(c)) < 10 /\ Dominant(c) # {}
              THEN Len(found) = 1 /\ found[1].category \in Dominant(c)
              ELSE found = <<>>

\* five of six present cells in one category: the insight is there
C7_Witness ==
  /\ pc = "report"
  /\ \E c \in {df.columns[i] : i \in 1..Len(df.columns)} :
        /\ c.kind = "categorical"
        /\ Cardinality(LabelsOf(c)) = 2
        /\ Present(c) = 6
        /\ \E x \in {insights[n] : n \in 1..Len(insights)} :
              x.kind = "imbalance" /\ x.col = c.name /\ x.pct = 833

\* C8: a numeric column yields an outlier insight exactly when some present
\* value lies strictly outside [Q1 - 1.5 IQR, Q3 + 1.5 IQR]; the insight
\* carries the number of such values and that number as a percentage of all
\* rows of the table, to 2 decimals.
StrictlyOutside(col) ==
  LET a == quantile(col.cells, 1).num   \* 4 * Q1
      b == quantile(col.cells, 3).num   \* 4 * Q3
  IN {i \in 1..Len(col.cells) :
        /\ ~col.cells[i].na
        /\ \/ 8 * col.cells[i].v < 2 * a - 3 * (b - a)
           \/ 8 * col.cells[i].v > 2 * b + 3 * (b - a)}
C8_OutlierRule ==
  IdentifyRan =>
     \A c \in {df.columns[i] : i \in 1..Len(df.columns)} :
        c.kind = "numeric" =>
           LET found == SelectSeq(OfKind("outlier"), LAMBDA x : x.col = c.name)
               n == Cardinality(StrictlyOutside(c))
           IN IF n > 0
              THEN /\ Len(found) = 1
                   /\ found[1].count = n
                   \* pct is 100*n/rows to the nearest hundredth
                   /\ 2 * Abs(10000 * n - found[1].pct * df.rows) <= df.rows
              ELSE found = <<>>

\* one outlier among four present values in a column of five rows: 20.00%
C8_Witness ==
  /\ pc = "report"
  /\ \E c \in {df.columns[i] : i \in 1..Len(df.columns)} :
        /\ c.kind = "numeric"
        /\ df.rows = 5
        /\ CountNA(c.cells) = 1
        /\ \E x \in {insights[n] : n \in 1..Len(insights)} :
              x.kind = "outlier" /\ x.col = c.name /\ x.count = 1 /\ x.pct = 2000

\* C9: a run that ends in the handler prints one error message and ends
\* with a non-zero status; a run that succeeds prints the report's path and
\* ends with status zero.
C9_ExitStatus ==
  /\ (pc = "caught") => (ErrorCount = 1 /\ exitStatus # <<0>>)
  /\ (pc = "done") =>
        /\ console[Len(console)] = <<"Analysis complete! Report saved to ", ReportPath>>
        /\ exitStatus = <<0>>

\* C10: whenever identify_trends_and_patterns has run it has returned, and
\* returned the outlier, correlation, skew and imbalance insights in that
\* order, whichever families and columns had nothing to report.
C10_FamiliesIndependent ==
  IdentifyRan =>
     /\ ~IdentifyRaised
     /\ insights = OutlierInsights(df) \o CorrelationInsights(df)
                     \o SkewInsights(df) \o ImbalanceInsights(df)

====
